---------------------------- MODULE Spec2Model ----------------------------
(***************************************************************************)
(* A model of bmcbutler's asset pipeline: the inventory sources (CSV,      *)
(* IP list, ENC) that produce batches of assets on the asset channel, the  *)
(* ENC reconciliation queries, and the butler's message handler that       *)
(* routes every asset to the configure or the execute path.                *)
(*                                                                         *)
(* Strings that the program splits on commas are sequences of atoms and    *)
(* the separator ","; an atom stands for one whole identifier (a serial,   *)
(* an address).  NIC names are sequences of characters, so that prefix     *)
(* matching and lower-casing are computed.                                 *)
(***************************************************************************)
EXTENDS Integers, Sequences, FiniteSets, TLC

(***************************************************************************)
(* Bounds of the model.                                                    *)
(***************************************************************************)
MaxNics == 2        \* network interfaces per ENC record
MaxRecords == 2     \* records per ENC response
MaxPages == 3       \* page queries per asset type before the ENC must end
MaxBatch == 2       \* largest configured BatchSize
ChanCap == 1        \* capacity of the asset channel
MaxMsgs == 2        \* messages handed to one msgHandler run
MaxRows == 2        \* rows of the CSV file
MaxRetry == 3       \* largest retry argument given to ExecCmd

(***************************************************************************)
(* Go strings (comma separated lists) and strings.Split(s, ",").           *)
(***************************************************************************)
Comma == ","

RECURSIVE SplitFrom(_, _, _)
SplitFrom(s, i, cur) ==
    IF i > Len(s) THEN <<cur>>
    ELSE IF s[i] = Comma THEN <<cur>> \o SplitFrom(s, i + 1, "")
    ELSE SplitFrom(s, i + 1, s[i])

\* strings.Split(s, ","): "" yields one empty element.
Split(s) == SplitFrom(s, 1, "")

SeqToSet(q) == {q[i] : i \in 1..Len(q)}

NoDup(q) == \A i, j \in 1..Len(q) : i # j => q[i] # q[j]

(***************************************************************************)
(* asset.Asset                                                             *)
(***************************************************************************)
NoExtra == [nil |-> TRUE, state |-> "", company |-> "", liveAssets |-> ""]

Asset(ips, ip, serial, vendor, type, location, extra) ==
    [IPAddresses |-> ips, IPAddress |-> ip, Serial |-> serial, Vendor |-> vendor,
     Type |-> type, HardwareType |-> "", Location |-> location, Extra |-> extra,
     Configure |-> FALSE, Execute |-> FALSE]

(***************************************************************************)
(* ENC data: Attributes, NetworkInterface, AttributesExtras.               *)
(***************************************************************************)
BmcNicName == <<"B", "m", "c", "0">>
EthNicName == <<"e", "t", "h", "0">>
BMCNicPrefix == << <<"b", "m", "c">> >>

ToLowerChar(c) ==
    CASE c = "B" -> "b"
      [] c = "M" -> "m"
      [] c = "C" -> "c"
      [] OTHER -> c

ToLowerChars(s) == [i \in 1..Len(s) |-> ToLowerChar(s[i])]

\* strings.ToLower on the words the ENC reports in extras
ToLower(w) ==
    CASE w = "Live" -> "live"
      [] w = "ACME" -> "acme"
      [] OTHER -> w

HasPrefix(s, prefix) ==
    /\ Len(prefix) <= Len(s)
    /\ \A i \in 1..Len(prefix) : s[i] = prefix[i]

stringHasPrefix(s, prefixes) ==
    \E k \in 1..Len(prefixes) : HasPrefix(ToLowerChars(s), prefixes[k])

RECURSIVE BmcAddrs(_)
BmcAddrs(nics) ==
    IF nics = <<>> THEN <<>>
    ELSE LET nic == Head(nics)
         IN  (IF /\ stringHasPrefix(nic.Name, BMCNicPrefix)
                 /\ nic.IPAddress # ""
                 /\ nic.IPAddress # "0.0.0.0"
              THEN <<nic.IPAddress>> ELSE <<>>) \o BmcAddrs(Tail(nics))

\* the BMCIPAddresses that SetBMCInterfaces computes for one record
SetBMCInterfaces(attributes) ==
    IF attributes.NetworkInterfaces.nil THEN <<>>
    ELSE BmcAddrs(attributes.NetworkInterfaces.list)

AttributesExtrasAsMap(attributeExtras) ==
    [nil |-> FALSE,
     state |-> ToLower(attributeExtras.State),
     company |-> ToLower(attributeExtras.Company),
     liveAssets |-> ""]


(***************************************************************************)
(* The reconciliation loops of encQueryBySerial and encQueryByIP remove    *)
(* the matched identifier from the slice they are ranging over.  A Go      *)
(* range evaluates the slice once (its length L is fixed) and reads the    *)
(* shared backing array arr at every index, while the append in the body   *)
(* shifts the array left and shortens the current slice to m elements.     *)
(* missing[idx+1:] panics when idx+1 exceeds the current length.           *)
(***************************************************************************)
ShiftLeft(arr, m, idx) ==
    [j \in 1..Len(arr) |-> IF j >= idx /\ j < m THEN arr[j + 1] ELSE arr[j]]

RECURSIVE PurgeFrom(_, _, _, _, _)
PurgeFrom(arr, m, L, idx, key) ==
    IF idx > L THEN [arr |-> arr, m |-> m, panic |-> FALSE]
    ELSE IF arr[idx] = key
         THEN IF idx > m
              THEN [arr |-> arr, m |-> m, panic |-> TRUE]
              ELSE PurgeFrom(ShiftLeft(arr, m, idx), m - 1, L, idx + 1, key)
         ELSE PurgeFrom(arr, m, L, idx + 1, key)

\* for idx, s := range missing { if s == key { missing = append(missing[:idx], missing[idx+1:]...) } }
RangePurge(arr, m, key) == PurgeFrom(arr, m, m, 1, key)

RECURSIVE PurgeAll(_, _, _)
\* for _, bmcIPAddress := range attributes.BMCIPAddresses { ... purge ... }
PurgeAll(arr, m, keys) ==
    IF keys = <<>> THEN [arr |-> arr, m |-> m, panic |-> FALSE]
    ELSE LET p == RangePurge(arr, m, Head(keys))
         IN  IF p.panic THEN p ELSE PurgeAll(p.arr, p.m, Tail(keys))

Returned(assets) == [outcome |-> "return", assets |-> assets]
Fatal == [outcome |-> "fatal", assets |-> <<>>]
Panic == [outcome |-> "panic", assets |-> <<>>]

SerialPlaceholder(serial) == Asset(<<>>, "", serial, "", "", "", NoExtra)
IPPlaceholder(ip) == Asset(<<ip>>, "", "", "", "", "", NoExtra)

FoundAsset(serial, addrs, attributes, type) ==
    Asset(addrs, "", serial, "", type, attributes.Location,
          AttributesExtrasAsMap(attributes.Extras))

RECURSIVE SerialLoop(_, _, _, _)
\* for serial, attributes := range cmdResp.Data, then the missing serials
SerialLoop(data, assets, arr, m) ==
    IF data = <<>>
    THEN Returned(assets \o [i \in 1..m |-> SerialPlaceholder(arr[i])])
    ELSE LET rec == Head(data)
             addrs == SetBMCInterfaces(rec.attributes)
             p == RangePurge(arr, m, rec.key)
         IN  IF Len(addrs) = 0 THEN SerialLoop(Tail(data), assets, arr, m)
             ELSE IF p.panic \/ rec.attributes.Extras.nil THEN Panic
             ELSE SerialLoop(Tail(data),
                             Append(assets, FoundAsset(rec.key, addrs, rec.attributes, "")),
                             p.arr, p.m)

encQueryBySerial(serials, resp) ==
    IF resp.err \/ resp.malformed THEN Fatal
    ELSE IF Len(resp.data) = 0 THEN Returned(<<>>)
    ELSE SerialLoop(resp.data, <<>>, Split(serials), Len(Split(serials)))

populateAssetsWithNoAttributes(ips) ==
    [i \in 1..Len(Split(ips)) |-> IPPlaceholder(Split(ips)[i])]

RECURSIVE IPLoop(_, _, _, _, _)
IPLoop(ips, data, assets, arr, m) ==
    IF data = <<>>
    THEN Returned(assets \o [i \in 1..m |-> IPPlaceholder(arr[i])])
    ELSE LET rec == Head(data)
             addrs == SetBMCInterfaces(rec.attributes)
             p == PurgeAll(arr, m, addrs)
         IN  IF Len(addrs) = 0
             THEN IPLoop(ips, Tail(data),
                         assets \o populateAssetsWithNoAttributes(ips), arr, m)
             ELSE IF p.panic \/ rec.attributes.Extras.nil THEN Panic
             ELSE IPLoop(ips, Tail(data),
                         Append(assets, FoundAsset(rec.key, addrs, rec.attributes, "")),
                         p.arr, p.m)

encQueryByIP(ips, resp) ==
    IF resp.err THEN Returned(populateAssetsWithNoAttributes(ips))
    ELSE IF resp.malformed THEN Fatal
    ELSE IF Len(resp.data) = 0 THEN Returned(populateAssetsWithNoAttributes(ips))
    ELSE IPLoop(ips, resp.data, <<>>, Split(ips), Len(Split(ips)))

\* the retry argument encQueryByOffset gives to ExecCmd
OffsetRetry == 3

RECURSIVE ExecCmdFrom(_, _, _)
\* errs[i] is whether the i-th run of the command (cmd.Output) returns an error
ExecCmdFrom(errs, i, retry) ==
    IF errs[i] /\ retry = 0 THEN [err |-> TRUE, attempts |-> i]
    ELSE IF errs[i] /\ retry > 1 THEN ExecCmdFrom(errs, i + 1, retry - 1)
    ELSE [err |-> errs[i], attempts |-> i]

\* ExecCmd(exe, args, retry): the error it returns and the runs it made
ExecCmd(errs, retry) == ExecCmdFrom(errs, 1, retry)

RECURSIVE OffsetLoop(_, _, _)
OffsetLoop(data, assets, assetType) ==
    IF data = <<>> THEN assets
    ELSE LET rec == Head(data)
             addrs == SetBMCInterfaces(rec.attributes)
         IN  IF Len(addrs) = 0 THEN OffsetLoop(Tail(data), assets, assetType)
             ELSE OffsetLoop(Tail(data),
                             Append(assets, FoundAsset(rec.key, addrs, rec.attributes, assetType)),
                             assetType)

\* the page's assets and the end-of-data flag; resp.err is the err of ExecCmd
encQueryByOffset(assetType, offset, limit, resp) ==
    IF resp.err \/ resp.malformed THEN Fatal @@ [endOfAssets |-> FALSE]
    ELSE IF Len(resp.data) = 0 THEN Returned(<<>>) @@ [endOfAssets |-> resp.endOfAssets]
    ELSE IF \E i \in 1..Len(resp.data) :
                /\ Len(SetBMCInterfaces(resp.data[i].attributes)) > 0
                /\ resp.data[i].attributes.Extras.nil
         THEN Panic @@ [endOfAssets |-> FALSE]
    ELSE Returned(OffsetLoop(resp.data, <<>>, assetType)) @@ [endOfAssets |-> resp.endOfAssets]

(***************************************************************************)
(* Input pools.                                                            *)
(***************************************************************************)
SeqsUpTo(S, n) == UNION {[1..k -> S] : k \in 0..n}

Serials == {"A", "B"}
Addrs == {"10.0.0.1", "10.0.0.2"}
NicIPs == {"", "0.0.0.0"} \cup Addrs

Nics ==
    {[Name |-> BmcNicName, IPAddress |-> ip] : ip \in NicIPs}
        \cup {[Name |-> EthNicName, IPAddress |-> "10.0.0.1"]}

NicLists ==
    {[nil |-> TRUE, list |-> <<>>]}
        \cup {[nil |-> FALSE, list |-> l] : l \in SeqsUpTo(Nics, MaxNics)}

NilExtras == [nil |-> TRUE, State |-> "", Company |-> ""]
LiveExtras == [nil |-> FALSE, State |-> "Live", Company |-> "ACME"]

Attributes ==
    [Location : {"ams9"}, NetworkInterfaces : NicLists, Extras : {NilExtras, LiveExtras}]

\* cmdResp.Data in the order the map iteration visits it: the keys are distinct
DataSeqs ==
    {d \in SeqsUpTo([key : Serials, attributes : Attributes], MaxRecords) :
        \A i, j \in 1..Len(d) : i # j => d[i].key # d[j].key}

Response(err, malformed, data, eoa) ==
    [err |-> err, malformed |-> malformed, data |-> data, endOfAssets |-> eoa]

CmdFailed == Response(TRUE, FALSE, <<>>, FALSE)
Malformed == Response(FALSE, TRUE, <<>>, FALSE)

QueryResponses ==
    {CmdFailed, Malformed} \cup {Response(FALSE, FALSE, d, FALSE) : d \in DataSeqs}

\* the comma separated lists given with --serials and --ips
ListStrings(atoms) ==
    {<<a>> : a \in atoms} \cup {<<a, Comma, b>> : a \in atoms, b \in atoms}

NoResult == [outcome |-> "none", assets |-> <<>>]

(***************************************************************************)
(* State.                                                                  *)
(***************************************************************************)
VARIABLES
    \* one call of an ENC reconciliation query
    qFn,            \* "serial" | "ip": the query called
    qReq,           \* the --serials / --ips argument
    qResp,          \* what the ENC command answers
    qOut,           \* the outcome of the call, NoResult before it
    \* one call of ExecCmd
    xRetry,         \* the retry argument
    xErrs,          \* whether the i-th run of the command fails
    xOut,           \* the err returned and the runs made, NoCall before the call
    \* the inventory source (producer) and the asset channel
    source,         \* "csv" | "iplist" | "enc"
    FilterParams,   \* Config.FilterParams: Serials, Ips, Chassis, Servers
    BatchSize,      \* the source's BatchSize
    csvFile,        \* the rows of the CSV file, or unreadable
    FilterAssetType,\* the asset types AssetRetrieve selects
    strategy,       \* the iterator AssetRetrieve returns
    pc,             \* where the iterator is
    typeIdx,        \* Enc.AssetIter: index into FilterAssetType
    offset,         \* Enc.AssetIter: offset of the next page
    page,           \* Enc.AssetIter: the last page's assets and end flag
    pending,        \* the batch about to be sent
    queries,        \* history: the page queries issued, in order
    lastExec,       \* history: how the last page query's command ended
    chanBuf,        \* the asset channel's buffer
    closeCount,     \* history: how often the channel was closed
    nSent,          \* history: number of sends
    lastBatch,      \* history: the batch of the last send
    sendAfterClose, \* history: a send happened on the closed channel
    stop,           \* StopChan is closed (cancellation broadcast)
    interrupt,      \* Enc.AssetIter's interrupt flag
    obsInterrupt,   \* history: the pagination loop has read interrupt = true
    queryAfterObs,  \* history: a page query was issued after that
    \* the butler (dispatcher)
    bConfig,        \* Butler.Config: DryRun, IgnoreLocation, Locations
    bInterrupt,     \* Butler.interrupt
    msg,            \* the message handed to msgHandler
    counters,       \* the metrics counters
    last,           \* history: what the last msgHandler invocation did
    lastEnv,        \* history: what the collaborators answered in it
    nMsgs,          \* number of messages handed over
    nUnknown,       \* history: how often the switch took its default case
    inbox           \* the batch the butler has received and is handing over

qvars == <<qFn, qReq, qResp, qOut, xRetry, xErrs, xOut>>
pvars == <<source, FilterParams, BatchSize, csvFile, FilterAssetType, strategy, pc,
           typeIdx, offset, page, pending, queries, lastExec, chanBuf, closeCount, nSent,
           lastBatch, sendAfterClose, stop, interrupt, obsInterrupt, queryAfterObs>>
bvars == <<bConfig, bInterrupt, msg, counters, last, lastEnv, nMsgs, nUnknown, inbox>>
vars == <<qvars, pvars, bvars>>

(***************************************************************************)
(* The butler: msgHandler, executeCommand, configureAsset.                 *)
(*                                                                         *)
(* env is what the collaborators answer during one invocation: the login   *)
(* (failure, or the variant of the device handle and the active address),  *)
(* the capability call's (success, err), bmc.Class()'s error, and what     *)
(* LoadConfigResources renders.                                            *)
(***************************************************************************)
Commands == {"bmc-reset", "powercycle", "firmware-update", "firmware-version", "bogus"}

CounterNames ==
    {"asset_recvd", "asset_recvd_noip", "asset_recvd_location_unmanaged",
     "execute_fail", "execute_success", "configure_fail", "configure_success"}

Incr(c, name) == [c EXCEPT ![name] = @ + 1]

\* what one call of executeCommand or configureAsset did
CallResult(err, logins, closes, calls, asset) ==
    [err |-> err, logins |-> logins, closes |-> closes, calls |-> calls, asset |-> asset]

executeCommandBmc(command, env) ==
    CASE command = "bmc-reset" ->
            [success |-> env.success, err |-> env.err, calls |-> <<"PowerCycleBmc">>]
      [] command = "powercycle" ->
            [success |-> env.success, err |-> env.err, calls |-> <<"PowerCycle">>]
      [] command = "firmware-update" ->
            IF env.classErr
            THEN [success |-> FALSE, err |-> TRUE, calls |-> <<"Class">>]
            ELSE [success |-> env.success, err |-> env.err,
                  calls |-> <<"Class", "Vendor", "UpdateFirmware">>]
      [] command = "firmware-version" ->
            [success |-> ~env.err, err |-> env.err, calls |-> <<"CheckFirmwareVersion">>]
      [] OTHER ->
            [success |-> FALSE, err |-> TRUE, calls |-> <<>>]

\* the commented-out executeCommandChassis brought back: the Cmc runs the command
executeCommandCmcRuns(cfg, command, asset, env) ==
    IF cfg.DryRun THEN CallResult(FALSE, 0, 0, <<>>, asset)
    ELSE IF env.login = "fail" THEN CallResult(TRUE, 1, 0, <<>>, asset)
    ELSE LET a == [asset EXCEPT !.IPAddress = env.active]
             r == executeCommandBmc(command, env)
         IN  CASE env.login \in {"Bmc", "Cmc"} -> CallResult(FALSE, 1, 1, r.calls, a)
               [] OTHER -> CallResult(TRUE, 1, 0, <<>>, a)

\* the Bmc handle closed only in the branch that logs the success
executeCommandCloseOnSuccess(cfg, command, asset, env) ==
    IF cfg.DryRun THEN CallResult(FALSE, 0, 0, <<>>, asset)
    ELSE IF env.login = "fail" THEN CallResult(TRUE, 1, 0, <<>>, asset)
    ELSE LET a == [asset EXCEPT !.IPAddress = env.active]
             r == executeCommandBmc(command, env)
         IN  CASE env.login = "Bmc" ->
                    CallResult(FALSE, 1, IF r.err \/ ~r.success THEN 0 ELSE 1, r.calls, a)
               [] env.login = "Cmc" -> CallResult(FALSE, 1, 1, <<>>, a)
               [] OTHER -> CallResult(TRUE, 1, 0, <<>>, a)

\* The err of the Bmc case is declared by := inside the case and shadows the
\* named result, so the function returns the login's err, which is nil there.
executeCommand(cfg, command, asset, env) ==
    IF cfg.DryRun THEN CallResult(FALSE, 0, 0, <<>>, asset)
    ELSE IF env.login = "fail" THEN CallResult(TRUE, 1, 0, <<>>, asset)
    ELSE LET a == [asset EXCEPT !.IPAddress = env.active]
             r == executeCommandBmc(command, env)
         IN  CASE env.login = "Bmc" -> CallResult(FALSE, 1, 1, r.calls, a)
               [] env.login = "Cmc" -> CallResult(FALSE, 1, 1, <<>>, a)
               [] OTHER -> CallResult(TRUE, 1, 0, <<>>, a)

\* the dry-run check placed after the login
configureAssetLoginFirst(cfg, config, asset, env) ==
    IF env.login \in {"fail", "none"} THEN CallResult(TRUE, 1, 0, <<>>, asset)
    ELSE CallResult(FALSE, 1, 0, <<>>, [asset EXCEPT !.IPAddress = env.active])

configureAsset(cfg, config, asset, env) ==
    IF cfg.DryRun THEN CallResult(FALSE, 0, 0, <<>>, asset)
    ELSE IF env.login = "fail" THEN CallResult(TRUE, 1, 0, <<>>, asset)
    ELSE LET a == [asset EXCEPT !.IPAddress = env.active]
             bmc == [a EXCEPT !.Type = "server", !.HardwareType = "idrac9",
                              !.Vendor = "dell"]
             cmc == [a EXCEPT !.Type = "chassis", !.HardwareType = "m1000e",
                              !.Vendor = "dell"]
             probe == <<"HardwareType", "Vendor", "Serial">>
         IN  CASE env.login = "Bmc" ->
                    IF env.rendered = "nil"
                    THEN CallResult(TRUE, 1, 0, probe, bmc)
                    ELSE CallResult(FALSE, 1, 1, probe \o <<"BmcApply">>, bmc)
               [] env.login = "Cmc" ->
                    IF env.rendered = "nil"
                    THEN CallResult(TRUE, 1, 0, probe, cmc)
                    ELSE IF env.rendered = "setup"
                    THEN CallResult(FALSE, 1, 1, probe \o <<"CmcSetupApply", "CmcApply">>, cmc)
                    ELSE CallResult(FALSE, 1, 1, probe \o <<"CmcApply">>, cmc)
               [] OTHER -> CallResult(TRUE, 1, 0, <<>>, a)

myLocation(cfg, location) ==
    \E i \in 1..Len(cfg.Locations) : cfg.Locations[i] = location

\* the check without its 0.0.0.0 half
NoIPAddressEmptyOnly(asset) == Len(asset.IPAddresses) = 0

\* "If an asset has no IPAddress, we can't do anything about it!"
NoIPAddress(asset) ==
    \/ Len(asset.IPAddresses) = 0
    \/ Len(asset.IPAddresses) = 1 /\ asset.IPAddresses[1] = "0.0.0.0"

\* the filter without the IgnoreLocation override
LocationUnmanagedNoOverride(cfg, asset) ==
    /\ asset.Location # ""
    /\ ~myLocation(cfg, asset.Location)

LocationUnmanaged(cfg, asset) ==
    /\ asset.Location # ""
    /\ ~myLocation(cfg, asset.Location) /\ ~cfg.IgnoreLocation

\* the switch with the configure case first
BranchConfigureFirst(cfg, m) ==
    IF NoIPAddress(m.Asset) THEN "noip"
    ELSE IF LocationUnmanaged(cfg, m.Asset) THEN "location"
    ELSE IF m.Asset.Configure THEN "configure"
    ELSE IF m.Asset.Execute THEN "execute"
    ELSE "unknown"

\* The branch msgHandler takes for m once it is past the interrupt check.
Branch(cfg, m) ==
    IF NoIPAddress(m.Asset) THEN "noip"
    ELSE IF LocationUnmanaged(cfg, m.Asset) THEN "location"
    ELSE IF m.Asset.Execute THEN "execute"
    ELSE IF m.Asset.Configure THEN "configure"
    ELSE "unknown"

\* invoked lists the invocations of executeCommand and configureAsset
Handled(outcome, intr, r, before) ==
    [outcome |-> outcome, intr |-> intr, err |-> r.err, logins |-> r.logins,
     closes |-> r.closes, calls |-> r.calls, asset |-> r.asset, before |-> before,
     invoked |-> IF outcome = "execute" THEN <<"executeCommand">>
                 ELSE IF outcome = "configure" THEN <<"configureAsset">>
                 ELSE <<>>]

\* the configure case without the return after the failure is counted
ConfigureCaseNoReturnOnFail(cfg, m, env, recvd, before) ==
    LET g == configureAsset(cfg, m.AssetConfig, m.Asset, env)
    IN  [counters |-> IF g.err
                      THEN Incr(Incr(recvd, "configure_fail"), "configure_success")
                      ELSE Incr(recvd, "configure_success"),
         last |-> Handled("configure", FALSE, g, before)]

\* case msg.Asset.Configure == true: recvd are the counters at the switch
ConfigureCase(cfg, m, env, recvd, before) ==
    LET g == configureAsset(cfg, m.AssetConfig, m.Asset, env)
    IN  [counters |-> Incr(recvd, IF g.err THEN "configure_fail" ELSE "configure_success"),
         last |-> Handled("configure", FALSE, g, before)]

\* the execute case without its return: the configure flag is tested next
ExecuteCaseNoReturn(cfg, m, env, recvd, before) ==
    LET x == executeCommand(cfg, m.AssetExecute, m.Asset, env)
        after == Incr(recvd, IF x.err THEN "execute_fail" ELSE "execute_success")
        g == ConfigureCase(cfg, m, env, after, before)
    IN  IF m.Asset.Configure
        THEN [counters |-> g.counters,
              last |-> [g.last EXCEPT !.outcome = "execute",
                                      !.logins = x.logins + @,
                                      !.closes = x.closes + @,
                                      !.calls = x.calls \o @,
                                      !.invoked = <<"executeCommand">> \o @]]
        ELSE [counters |-> after, last |-> Handled("execute", FALSE, x, before)]

\* case msg.Asset.Execute == true
ExecuteCase(cfg, m, env, recvd, before) ==
    LET x == executeCommand(cfg, m.AssetExecute, m.Asset, env)
    IN  [counters |-> Incr(recvd, IF x.err THEN "execute_fail" ELSE "execute_success"),
         last |-> Handled("execute", FALSE, x, before)]

\* the interrupt check placed after the asset_recvd counter
InterruptedAfterCount(m, c) ==
    [counters |-> Incr(c, "asset_recvd"),
     last |-> Handled("cancelled", TRUE, CallResult(FALSE, 0, 0, <<>>, m.Asset), c)]

\* if b.interrupt { return }: nothing is counted, nothing is called
Interrupted(m, c) ==
    [counters |-> c,
     last |-> Handled("cancelled", TRUE, CallResult(FALSE, 0, 0, <<>>, m.Asset), c)]

\* what msgHandler(m) does to the counters, and the record of the invocation
msgHandlerResult(cfg, intr, m, env, c) ==
    LET none == CallResult(FALSE, 0, 0, <<>>, m.Asset)
        recvd == Incr(c, "asset_recvd")
        b == Branch(cfg, m)
    IN  IF intr THEN Interrupted(m, c)
        ELSE CASE b = "noip" ->
                    [counters |-> Incr(recvd, "asset_recvd_noip"),
                     last |-> Handled(b, FALSE, none, c)]
               [] b = "location" ->
                    [counters |-> Incr(recvd, "asset_recvd_location_unmanaged"),
                     last |-> Handled(b, FALSE, none, c)]
               [] b = "execute" -> ExecuteCase(cfg, m, env, recvd, c)
               [] b = "configure" -> ConfigureCase(cfg, m, env, recvd, c)
               [] OTHER ->
                    [counters |-> recvd, last |-> Handled(b, FALSE, none, c)]

(***************************************************************************)
(* The asset channel.  A send blocks while the buffer is full.             *)
(***************************************************************************)
Send(batch) ==
    /\ Len(chanBuf) < ChanCap
    /\ chanBuf' = Append(chanBuf, batch)
    /\ nSent' = nSent + 1
    /\ lastBatch' = batch
    /\ sendAfterClose' = (sendAfterClose \/ closeCount > 0)
    /\ closeCount' = closeCount

Close ==
    /\ closeCount' = closeCount + 1
    /\ UNCHANGED <<chanBuf, nSent, lastBatch, sendAfterClose>>

chanVars == <<chanBuf, closeCount, nSent, lastBatch, sendAfterClose>>
cfgVars == <<source, FilterParams, BatchSize, csvFile>>
encVars == <<typeIdx, offset, page, queries, lastExec, interrupt, obsInterrupt,
             queryAfterObs>>

\* the consumer's receive: the butler takes one batch off the channel
Receive ==
    /\ Len(chanBuf) > 0
    /\ chanBuf' = Tail(chanBuf)
    /\ UNCHANGED <<cfgVars, FilterAssetType, strategy, pc, pending, encVars,
                   closeCount, nSent, lastBatch, sendAfterClose, stop>>
    /\ UNCHANGED <<qvars, bvars>>

\* the cancellation signal: StopChan is closed, once
StopBroadcast ==
    /\ ~stop
    /\ pc \notin {"returned", "exited", "panicked"}
    /\ stop' = TRUE
    /\ UNCHANGED <<cfgVars, FilterAssetType, strategy, pc, pending, encVars, chanVars>>
    /\ UNCHANGED <<qvars, bvars>>

(***************************************************************************)
(* AssetRetrieve of the three sources.                                     *)
(***************************************************************************)
\* the first switch of Csv.AssetRetrieve and Enc.AssetRetrieve
SelectAssetTypes(types, fp) ==
    IF fp.Chassis THEN Append(types, "chassis")
    ELSE IF fp.Servers THEN Append(types, "servers")
    ELSE <<"chassis", "servers">>

\* the second switch with the case of the IPs first
SelectIterIpsFirst(fp) ==
    IF fp.Ips # <<>> THEN "AssetIterByIP"
    ELSE IF fp.Serials # <<>> THEN "AssetIterBySerial"
    ELSE "AssetIter"

\* the second switch: the iterator that is returned
SelectIter(fp) ==
    IF fp.Serials # <<>> THEN "AssetIterBySerial"
    ELSE IF fp.Ips # <<>> THEN "AssetIterByIP"
    ELSE "AssetIter"

AssetRetrieve ==
    /\ pc = "start"
    /\ pc' = "run"
    /\ IF source = "iplist"
       THEN /\ strategy' = <<"iplist", "AssetIter">>
            /\ UNCHANGED FilterAssetType
       ELSE /\ strategy' = <<source, SelectIter(FilterParams)>>
            /\ FilterAssetType' = SelectAssetTypes(FilterAssetType, FilterParams)
    /\ UNCHANGED <<cfgVars, pending, encVars, chanVars, stop>>
    /\ UNCHANGED <<qvars, bvars>>

(***************************************************************************)
(* The CSV source.  readCsv exits the process when the file cannot be      *)
(* read; every iterator skips the rows without a bmcaddress.               *)
(***************************************************************************)
CsvRowAsset(item) ==
    Asset(<<item.BmcAddress>>, "", item.Serial, item.Vendor, item.Type, "", NoExtra)

RECURSIVE CsvRowsBySerial(_, _)
CsvRowsBySerial(rows, serial) ==
    IF rows = <<>> THEN <<>>
    ELSE (IF Head(rows).BmcAddress # "" /\ Head(rows).Serial = serial
          THEN <<CsvRowAsset(Head(rows))>> ELSE <<>>)
         \o CsvRowsBySerial(Tail(rows), serial)

RECURSIVE CsvBySerial(_, _)
CsvBySerial(rows, serials) ==
    IF serials = <<>> THEN <<>>
    ELSE CsvRowsBySerial(rows, Head(serials)) \o CsvBySerial(rows, Tail(serials))

RECURSIVE CsvLookupIP(_, _, _)
\* the attributes of every matching row overwrite those of the row before
CsvLookupIP(rows, ip, a) ==
    IF rows = <<>> THEN a
    ELSE LET item == Head(rows)
         IN  IF item.BmcAddress # "" /\ item.BmcAddress = ip
             THEN CsvLookupIP(Tail(rows), ip,
                              [a EXCEPT !.Serial = item.Serial, !.Vendor = item.Vendor,
                                        !.Type = item.Type])
             ELSE CsvLookupIP(Tail(rows), ip, a)

RECURSIVE CsvByIPFoundOnly(_, _)
\* a lookup that appends the asset only when a row matched
CsvByIPFoundOnly(rows, ips) ==
    IF ips = <<>> THEN <<>>
    ELSE (IF \E i \in 1..Len(rows) : rows[i].BmcAddress # "" /\ rows[i].BmcAddress = Head(ips)
          THEN <<CsvLookupIP(rows, Head(ips), IPPlaceholder(Head(ips)))>> ELSE <<>>)
         \o CsvByIPFoundOnly(rows, Tail(ips))

CsvByIP(rows, ips) ==
    [i \in 1..Len(ips) |-> CsvLookupIP(rows, ips[i], IPPlaceholder(ips[i]))]

RECURSIVE CsvAll(_)
CsvAll(rows) ==
    IF rows = <<>> THEN <<>>
    ELSE (IF Head(rows).BmcAddress # "" THEN <<CsvRowAsset(Head(rows))>> ELSE <<>>)
         \o CsvAll(Tail(rows))

\* the steps every iterator shares: it is blocked in the send, then it closes
SendStep(strat, next) ==
    /\ pc = "send" /\ strategy = strat
    /\ Send(pending)
    /\ pc' = next
    /\ UNCHANGED <<cfgVars, FilterAssetType, strategy, pending, encVars, stop>>
    /\ UNCHANGED <<qvars, bvars>>

\* an iterator that returns without closing the channel
CloseStepForgotten(strat) ==
    /\ pc = "close" /\ strategy = strat
    /\ pc' = "returned"
    /\ UNCHANGED <<cfgVars, FilterAssetType, strategy, pending, encVars, chanVars, stop>>
    /\ UNCHANGED <<qvars, bvars>>

CloseStep(strat) ==
    /\ pc = "close" /\ strategy = strat
    /\ Close
    /\ pc' = "returned"
    /\ UNCHANGED <<cfgVars, FilterAssetType, strategy, pending, encVars, stop>>
    /\ UNCHANGED <<qvars, bvars>>

\* an iterator's code up to its send: the batch is computed, or the process exits
Compute(strat, ok, batch) ==
    /\ pc = "run" /\ strategy = strat
    /\ IF ok THEN pc' = "send" /\ pending' = batch
             ELSE pc' = "exited" /\ pending' = pending
    /\ UNCHANGED <<cfgVars, FilterAssetType, strategy, encVars, chanVars, stop>>
    /\ UNCHANGED <<qvars, bvars>>

CsvAssetIterBySerial ==
    \/ Compute(<<"csv", "AssetIterBySerial">>, csvFile.ok,
               CsvBySerial(csvFile.rows, Split(FilterParams.Serials)))
    \/ SendStep(<<"csv", "AssetIterBySerial">>, "close")
    \/ CloseStep(<<"csv", "AssetIterBySerial">>)

CsvAssetIterByIP ==
    \/ Compute(<<"csv", "AssetIterByIP">>, csvFile.ok,
               CsvByIP(csvFile.rows, Split(FilterParams.Ips)))
    \/ SendStep(<<"csv", "AssetIterByIP">>, "close")
    \/ CloseStep(<<"csv", "AssetIterByIP">>)

CsvAssetIter ==
    \/ Compute(<<"csv", "AssetIter">>, csvFile.ok, CsvAll(csvFile.rows))
    \/ SendStep(<<"csv", "AssetIter">>, "close")
    \/ CloseStep(<<"csv", "AssetIter">>)

(***************************************************************************)
(* The IP list source: one asset per address, the address in IPAddress.    *)
(***************************************************************************)
IPListAssets(ips) ==
    [i \in 1..Len(ips) |-> Asset(<<>>, ips[i], "", "", "", "", NoExtra)]

IPListAssetIter ==
    \/ Compute(<<"iplist", "AssetIter">>, TRUE, IPListAssets(Split(FilterParams.Ips)))
    \/ SendStep(<<"iplist", "AssetIter">>, "close")
    \/ CloseStep(<<"iplist", "AssetIter">>)

(***************************************************************************)
(* The ENC source.  The answers of the ENC command are drawn when the      *)
(* query is made.  log.Fatal exits the process (no deferred call runs); a  *)
(* panic runs the deferred close while the goroutine unwinds.              *)
(***************************************************************************)
GoodNics == [nil |-> FALSE, list |-> <<[Name |-> BmcNicName, IPAddress |-> "10.0.0.1"]>>]
DeadNics == [nil |-> FALSE, list |-> <<[Name |-> BmcNicName, IPAddress |-> "0.0.0.0"]>>]

PipeRecords ==
    {[key |-> "A", attributes |->
        [Location |-> "ams9", NetworkInterfaces |-> GoodNics, Extras |-> LiveExtras]],
     [key |-> "A", attributes |->
        [Location |-> "ams9", NetworkInterfaces |-> GoodNics, Extras |-> NilExtras]],
     [key |-> "B", attributes |->
        [Location |-> "ams9", NetworkInterfaces |-> DeadNics, Extras |-> LiveExtras]]}

PipeData ==
    {d \in SeqsUpTo(PipeRecords, MaxRecords) :
        \A i, j \in 1..Len(d) : i # j => d[i].key # d[j].key}

PipeResponses ==
    {CmdFailed, Malformed}
        \cup {Response(FALSE, FALSE, d, eoa) : d \in PipeData, eoa \in BOOLEAN}

\* a failed or malformed query that is logged as an error and not as fatal
AfterQueryNotFatal(r) ==
    CASE r.outcome \in {"return", "fatal"} ->
            /\ pc' = "send" /\ pending' = r.assets
            /\ UNCHANGED chanVars
      [] OTHER ->
            /\ pc' = "panicked" /\ pending' = pending
            /\ Close

\* what follows a query: the send, the process's exit, or the unwinding
AfterQuery(r) ==
    CASE r.outcome = "return" ->
            /\ pc' = "send" /\ pending' = r.assets
            /\ UNCHANGED chanVars
      [] r.outcome = "fatal" ->
            /\ pc' = "exited" /\ pending' = pending
            /\ UNCHANGED chanVars
      [] OTHER ->
            /\ pc' = "panicked" /\ pending' = pending
            /\ Close

EncAssetIterBySerial ==
    \/ /\ pc = "run" /\ strategy = <<"enc", "AssetIterBySerial">>
       /\ \E resp \in PipeResponses :
            /\ ~resp.endOfAssets
            /\ AfterQuery(encQueryBySerial(FilterParams.Serials, resp))
       /\ UNCHANGED <<cfgVars, FilterAssetType, strategy, encVars, stop>>
       /\ UNCHANGED <<qvars, bvars>>
    \/ SendStep(<<"enc", "AssetIterBySerial">>, "close")
    \/ CloseStep(<<"enc", "AssetIterBySerial">>)

EncAssetIterByIP ==
    \/ /\ pc = "run" /\ strategy = <<"enc", "AssetIterByIP">>
       /\ \E resp \in PipeResponses :
            /\ ~resp.endOfAssets
            /\ AfterQuery(encQueryByIP(FilterParams.Ips, resp))
       /\ UNCHANGED <<cfgVars, FilterAssetType, strategy, encVars, stop>>
       /\ UNCHANGED <<qvars, bvars>>
    \/ SendStep(<<"enc", "AssetIterByIP">>, "close")
    \/ CloseStep(<<"enc", "AssetIterByIP">>)

\* the pages of the current asset type queried so far
PagesOfType == offset \div BatchSize

\* offset++ in place of offset += limit
NextOffsetByOne(off, limit) == off + 1

\* offset += limit
NextOffset(off, limit) == off + limit

\* a loop that the end of the assets does not end
LoopEndsOnInterruptOnly(endOfAssets, intr) == intr

\* if endOfAssets || interrupt { break }
LoopEnds(endOfAssets, intr) == endOfAssets \/ intr

NoExec == [err |-> FALSE, malformed |-> FALSE, attempts |-> 0]

\* Enc.AssetIter: the loop over the asset types and, inside, over the pages
EncAssetIter ==
    \* the types loop is entered: limit := e.BatchSize; offset := 0
    \/ /\ pc = "run" /\ strategy = <<"enc", "AssetIter">>
       /\ IF Len(FilterAssetType) = 0
          THEN pc' = "close" /\ UNCHANGED <<typeIdx, offset>>
          ELSE pc' = "query" /\ typeIdx' = 1 /\ offset' = 0
       /\ UNCHANGED <<cfgVars, FilterAssetType, strategy, pending, page, queries, lastExec,
                      interrupt, obsInterrupt, queryAfterObs, chanVars, stop>>
       /\ UNCHANGED <<qvars, bvars>>
    \* assets, endOfAssets := e.encQueryByOffset(assetType, offset, limit, locations):
    \* the command is run up to OffsetRetry times, its last answer is resp
    \/ /\ pc = "query" /\ strategy = <<"enc", "AssetIter">>
       /\ PagesOfType < MaxPages
       /\ \E errs \in [1..OffsetRetry -> BOOLEAN], answer \in PipeResponses \ {CmdFailed} :
            LET x == ExecCmd(errs, OffsetRetry)
                resp == IF x.err THEN CmdFailed ELSE answer
                r == encQueryByOffset(FilterAssetType[typeIdx], offset, BatchSize, resp)
            IN  \* the ENC reports the end of the assets within MaxPages pages,
                \* unless the interrupt is there to end the loop
                /\ PagesOfType + 1 >= MaxPages =>
                        (resp.err \/ resp.malformed \/ resp.endOfAssets \/ interrupt)
                /\ AfterQuery(r)
                /\ page' = [assets |-> r.assets, endOfAssets |-> r.endOfAssets]
                /\ lastExec' = [err |-> x.err, malformed |-> resp.malformed,
                                attempts |-> x.attempts]
       /\ queries' = Append(queries, [scan |-> typeIdx,
                                      assetType |-> FilterAssetType[typeIdx],
                                      offset |-> offset, limit |-> BatchSize])
       /\ queryAfterObs' = (queryAfterObs \/ obsInterrupt)
       /\ UNCHANGED <<cfgVars, FilterAssetType, strategy, typeIdx, offset, interrupt,
                      obsInterrupt, stop>>
       /\ UNCHANGED <<qvars, bvars>>
    \* e.AssetsChan <- assets
    \/ SendStep(<<"enc", "AssetIter">>, "tail")
    \* offset += limit; if endOfAssets || interrupt { break }
    \/ /\ pc = "tail" /\ strategy = <<"enc", "AssetIter">>
       /\ obsInterrupt' = (obsInterrupt \/ (~page.endOfAssets /\ interrupt))
       /\ IF LoopEnds(page.endOfAssets, interrupt)
          THEN IF typeIdx < Len(FilterAssetType)
               THEN pc' = "query" /\ typeIdx' = typeIdx + 1 /\ offset' = 0
               ELSE pc' = "close" /\ typeIdx' = typeIdx /\ offset' = NextOffset(offset, BatchSize)
          ELSE pc' = "query" /\ typeIdx' = typeIdx /\ offset' = NextOffset(offset, BatchSize)
       /\ UNCHANGED <<cfgVars, FilterAssetType, strategy, pending, page, queries, lastExec,
                      interrupt, queryAfterObs, chanVars, stop>>
       /\ UNCHANGED <<qvars, bvars>>
    \* defer close(e.AssetsChan)
    \/ CloseStep(<<"enc", "AssetIter">>)
    \* go func() { <-e.StopChan; interrupt = true }(): the write is not
    \* synchronised with the loop's read, so the loop may read the flag as
    \* unset for any time after the broadcast; the write happens at any later step
    \/ /\ strategy = <<"enc", "AssetIter">> /\ pc \notin {"start", "run"}
       /\ stop /\ ~interrupt
       /\ interrupt' = TRUE
       /\ UNCHANGED <<cfgVars, FilterAssetType, strategy, pc, pending, typeIdx, offset,
                      page, queries, lastExec, obsInterrupt, queryAfterObs, chanVars, stop>>
       /\ UNCHANGED <<qvars, bvars>>

(***************************************************************************)
(* The messages handed to msgHandler and the collaborators' answers.       *)
(***************************************************************************)
MsgIPs == {<<>>, <<"0.0.0.0">>, <<"">>, <<"10.0.0.1">>, <<"0.0.0.0", "0.0.0.0">>}
MsgLocations == {"", "ams9", "lhr1"}

Msg(ips, loc, c, x, cmd) ==
    [Asset |-> [Asset(ips, "", "A", "", "", loc, NoExtra)
                    EXCEPT !.Configure = c, !.Execute = x],
     AssetConfig |-> "cfg", AssetExecute |-> cmd]

Msgs ==
    {Msg(ips, loc, c, FALSE, "") : ips \in MsgIPs, loc \in MsgLocations, c \in BOOLEAN}
        \cup {Msg(ips, loc, FALSE, TRUE, cmd) :
                ips \in MsgIPs, loc \in MsgLocations, cmd \in Commands}
        \cup {Msg(ips, loc, TRUE, TRUE, "powercycle") :
                ips \in MsgIPs, loc \in MsgLocations}

NoMsg == Msg(<<>>, "", FALSE, FALSE, "")

Env(login, active, success, err, classErr, rendered) ==
    [login |-> login, active |-> active, success |-> success, err |-> err,
     classErr |-> classErr, rendered |-> rendered]

NoEnv == Env("none", "", FALSE, FALSE, FALSE, "nil")

\* the answers that can matter to msgHandler(m)
Envs(cfg, intr, m) ==
    LET b == Branch(cfg, m)
        actives == SeqToSet(m.Asset.IPAddresses)
    IN  IF intr \/ cfg.DryRun \/ b \notin {"execute", "configure"} THEN {NoEnv}
        ELSE {Env("fail", "", FALSE, FALSE, FALSE, "nil")}
             \cup {Env("Other", a, FALSE, FALSE, FALSE, "nil") : a \in actives}
             \cup (IF b = "execute"
                   THEN {Env("Cmc", a, FALSE, FALSE, FALSE, "nil") : a \in actives}
                        \cup {Env("Bmc", a, e[1], e[2], ce, "nil") :
                                a \in actives,
                                e \in {<<TRUE, FALSE>>, <<FALSE, FALSE>>, <<FALSE, TRUE>>},
                                ce \in IF m.AssetExecute = "firmware-update"
                                       THEN BOOLEAN ELSE {FALSE}}
                   ELSE {Env(l, a, FALSE, FALSE, FALSE, r) :
                            l \in {"Bmc", "Cmc"}, a \in actives,
                            r \in {"nil", "plain", "setup"}})

\* a handler that stops the butler when an asset fails
msgHandlerAbortOnFailure ==
    /\ nMsgs < MaxMsgs
    /\ \E m \in Msgs :
         \E env \in Envs(bConfig, bInterrupt, m) :
            LET r == msgHandlerResult(bConfig, bInterrupt, m, env, counters)
            IN  /\ msg' = m
                /\ counters' = r.counters
                /\ last' = r.last
                /\ lastEnv' = env
                /\ bInterrupt' = (bInterrupt \/ r.last.err)
                /\ nUnknown' = nUnknown + (IF r.last.outcome = "unknown" THEN 1 ELSE 0)
    /\ nMsgs' = nMsgs + 1
    /\ UNCHANGED <<bConfig, inbox>>
    /\ UNCHANGED <<qvars, pvars>>

\* one invocation of msgHandler, from the interrupt check to its return
msgHandler ==
    /\ nMsgs < MaxMsgs
    /\ \E m \in Msgs :
         \E env \in Envs(bConfig, bInterrupt, m) :
            LET r == msgHandlerResult(bConfig, bInterrupt, m, env, counters)
            IN  /\ msg' = m
                /\ counters' = r.counters
                /\ last' = r.last
                /\ lastEnv' = env
                /\ nUnknown' = nUnknown + (IF r.last.outcome = "unknown" THEN 1 ELSE 0)
    /\ nMsgs' = nMsgs + 1
    /\ UNCHANGED <<bConfig, bInterrupt, inbox>>
    /\ UNCHANGED <<qvars, pvars>>

\* the butler's goroutine that waits for the cancellation: b.interrupt = true
ButlerInterrupt ==
    /\ ~bInterrupt
    /\ bInterrupt' = TRUE
    /\ UNCHANGED <<bConfig, msg, counters, last, lastEnv, nMsgs, nUnknown, inbox>>
    /\ UNCHANGED <<qvars, pvars>>

\* the butler takes a batch off the asset channel
ButlerReceive ==
    /\ Len(chanBuf) > 0 /\ inbox = <<>>
    /\ inbox' = Head(chanBuf)
    /\ chanBuf' = Tail(chanBuf)
    /\ UNCHANGED <<cfgVars, FilterAssetType, strategy, pc, pending, encVars,
                   closeCount, nSent, lastBatch, sendAfterClose, stop>>
    /\ UNCHANGED <<bConfig, bInterrupt, msg, counters, last, lastEnv, nMsgs, nUnknown>>
    /\ UNCHANGED qvars

\* the action the run asks for: configure, execute a command, or none
Requests ==
    {[Configure |-> TRUE, Execute |-> FALSE, AssetExecute |-> ""],
     [Configure |-> FALSE, Execute |-> TRUE, AssetExecute |-> "powercycle"],
     [Configure |-> FALSE, Execute |-> FALSE, AssetExecute |-> ""]}

\* msgHandler invoked for the next asset of the received batch, as it came
\* off the channel, with the flags of the requested action
msgHandlerInbox ==
    /\ inbox # <<>>
    /\ \E q \in Requests :
         LET m == [Asset |-> [Head(inbox) EXCEPT !.Configure = q.Configure,
                                                 !.Execute = q.Execute],
                   AssetConfig |-> "cfg", AssetExecute |-> q.AssetExecute]
         IN  \E env \in Envs(bConfig, bInterrupt, m) :
                LET r == msgHandlerResult(bConfig, bInterrupt, m, env, counters)
                IN  /\ msg' = m
                    /\ counters' = r.counters
                    /\ last' = r.last
                    /\ lastEnv' = env
                    /\ nUnknown' = nUnknown + (IF r.last.outcome = "unknown" THEN 1 ELSE 0)
    /\ inbox' = Tail(inbox)
    /\ nMsgs' = nMsgs + 1
    /\ UNCHANGED <<bConfig, bInterrupt>>
    /\ UNCHANGED <<qvars, pvars>>

NoCall == [called |-> FALSE, err |-> FALSE, attempts |-> 0]

\* one call of ExecCmd
ExecCall ==
    /\ xOut = NoCall
    /\ xOut' = [called |-> TRUE, err |-> ExecCmd(xErrs, xRetry).err,
                attempts |-> ExecCmd(xErrs, xRetry).attempts]
    /\ UNCHANGED <<qFn, qReq, qResp, qOut, xRetry, xErrs>>
    /\ UNCHANGED <<pvars, bvars>>

\* one call of encQueryBySerial or encQueryByIP
EncQuery ==
    /\ qOut = NoResult
    /\ qOut' = IF qFn = "serial" THEN encQueryBySerial(qReq, qResp)
                                 ELSE encQueryByIP(qReq, qResp)
    /\ UNCHANGED <<qFn, qReq, qResp, xRetry, xErrs, xOut>>
    /\ UNCHANGED <<pvars, bvars>>

(***************************************************************************)
(* Initial states and specifications.                                      *)
(***************************************************************************)
XIdle ==
    /\ xRetry = 0 /\ xErrs = <<>> /\ xOut = NoCall

XInit ==
    /\ xRetry \in -1..MaxRetry
    /\ xErrs \in [1..MaxRetry + 1 -> BOOLEAN]
    /\ xOut = NoCall

QNone ==
    /\ qFn = "none" /\ qReq = <<>> /\ qResp = CmdFailed /\ qOut = NoResult

QIdle == QNone /\ XIdle

QInit ==
    /\ qFn \in {"serial", "ip"}
    /\ qReq \in ListStrings(IF qFn = "serial" THEN Serials ELSE Addrs)
    /\ qResp \in QueryResponses
    /\ qOut = NoResult
    /\ XIdle

CsvRows ==
    {[BmcAddress |-> "10.0.0.1", Serial |-> "A", Vendor |-> "dell", Type |-> "server"],
     [BmcAddress |-> "10.0.0.2", Serial |-> "A", Vendor |-> "hp", Type |-> "chassis"],
     [BmcAddress |-> "10.0.0.1", Serial |-> "B", Vendor |-> "hp", Type |-> "chassis"],
     [BmcAddress |-> "", Serial |-> "B", Vendor |-> "dell", Type |-> "server"]}

CsvFiles ==
    {[ok |-> FALSE, rows |-> <<>>]} \cup {[ok |-> TRUE, rows |-> r] : r \in SeqsUpTo(CsvRows, MaxRows)}

NoCsv == [ok |-> FALSE, rows |-> <<>>]

FilterParamsSet ==
    [Serials : {<<>>, <<"A">>, <<"A", Comma, "B">>},
     Ips : {<<>>, <<"10.0.0.1">>, <<"10.0.0.1", Comma, "10.0.0.2">>},
     Chassis : BOOLEAN, Servers : BOOLEAN]

NoPage == [assets |-> <<>>, endOfAssets |-> FALSE]

PStart ==
    /\ FilterAssetType = <<>> /\ strategy = <<"none", "none">>
    /\ typeIdx = 0 /\ offset = 0 /\ page = NoPage /\ pending = <<>>
    /\ queries = <<>> /\ lastExec = NoExec
    /\ chanBuf = <<>> /\ closeCount = 0 /\ nSent = 0
    /\ lastBatch = <<>> /\ sendAfterClose = FALSE
    /\ stop = FALSE /\ interrupt = FALSE /\ obsInterrupt = FALSE /\ queryAfterObs = FALSE

PIdle ==
    /\ source = "none" /\ pc = "idle" /\ BatchSize = 1 /\ csvFile = NoCsv
    /\ FilterParams = [Serials |-> <<>>, Ips |-> <<>>, Chassis |-> FALSE, Servers |-> FALSE]
    /\ PStart

PInit ==
    /\ source \in {"csv", "iplist", "enc"}
    /\ pc = "start"
    /\ FilterParams \in FilterParamsSet
    /\ BatchSize \in 1..MaxBatch
    /\ csvFile \in IF source = "csv" THEN CsvFiles ELSE {NoCsv}
    /\ PStart

ZeroCounters == [n \in CounterNames |-> 0]

BStart ==
    /\ bInterrupt = FALSE /\ msg = NoMsg /\ counters = ZeroCounters /\ nMsgs = 0
    /\ lastEnv = NoEnv /\ nUnknown = 0 /\ inbox = <<>>
    /\ last = Handled("init", FALSE, CallResult(FALSE, 0, 0, <<>>, NoMsg.Asset), ZeroCounters)

BIdle ==
    /\ bConfig = [DryRun |-> TRUE, IgnoreLocation |-> FALSE, Locations |-> <<>>]
    /\ BStart

BInit ==
    /\ bConfig \in [DryRun : BOOLEAN, IgnoreLocation : BOOLEAN, Locations : {<<"ams9">>}]
    /\ BStart

\* the ENC reconciliation queries, as functions of the request and the answer
InitQuery == QInit /\ PIdle /\ BIdle
SpecQuery == InitQuery /\ [][EncQuery]_vars

PNext ==
    \/ AssetRetrieve
    \/ CsvAssetIterBySerial \/ CsvAssetIterByIP \/ CsvAssetIter
    \/ IPListAssetIter
    \/ EncAssetIterBySerial \/ EncAssetIterByIP \/ EncAssetIter
    \/ Receive
    \/ StopBroadcast

\* an inventory source producing on the asset channel
InitPipeline == QIdle /\ PInit /\ BIdle
SpecPipeline == InitPipeline /\ [][PNext]_vars

\* the same where the goroutines that can run do run: the consumers keep
\* receiving, and the iterator and its interrupt goroutine are scheduled
SpecPipelineFair ==
    /\ InitPipeline /\ [][PNext]_vars
    /\ WF_vars(Receive)
    /\ WF_vars(AssetRetrieve)
    /\ WF_vars(EncAssetIter)

\* ExecCmd as a function of its retry argument and of the command's runs
InitExec == QNone /\ XInit /\ PIdle /\ BIdle
SpecExec == InitExec /\ [][ExecCall]_vars

ENext ==
    \/ AssetRetrieve
    \/ IPListAssetIter
    \/ ButlerReceive
    \/ msgHandlerInbox
    \/ ButlerInterrupt

\* the IP list source and the butler that handles what it sends
InitEndToEnd == QIdle /\ PInit /\ BInit /\ source = "iplist"
SpecEndToEnd == InitEndToEnd /\ [][ENext]_vars

BNext == msgHandler \/ ButlerInterrupt

\* the butler handling messages
InitButler == QIdle /\ PIdle /\ BInit
SpecButler == InitButler /\ [][BNext]_vars

(***************************************************************************)
(* The asset channel and the ENC pagination (SpecPipeline).                *)
(***************************************************************************)
EncFullScan == strategy = <<"enc", "AssetIter">>

\* C1: whatever the source and the iterator, the channel is never closed twice,
\* nothing is sent after the close, and an iterator that has returned has closed
\* the channel once, after at least one send.
C1_ClosedOnceAfterFinalSend ==
    /\ closeCount <= 1
    /\ ~sendAfterClose
    /\ pc = "returned" => closeCount = 1 /\ nSent >= 1

\* an ENC full scan that has sent several pages and then closed
C1_Witness ==
    /\ EncFullScan /\ pc = "returned"
    /\ nSent >= 3 /\ closeCount = 1 /\ ~sendAfterClose

\* C5: in an ENC full scan the first page of every asset type is queried at
\* offset 0 and each further page of that type exactly limit = BatchSize above
\* the page before.
C5_OffsetsIncreaseByLimit ==
    \A i \in 1..Len(queries) :
        /\ queries[i].limit = BatchSize
        /\ IF i = 1 \/ queries[i - 1].scan # queries[i].scan
           THEN queries[i].offset = 0
           ELSE queries[i].offset = queries[i - 1].offset + BatchSize

\* two pages of the first type with a limit of 2, then the first page of the second
C5_Witness ==
    /\ BatchSize = 2 /\ Len(queries) >= 3
    /\ queries[2].scan = 1 /\ queries[2].offset = 2
    /\ queries[3].scan = 2 /\ queries[3].offset = 0

\* C6: every page that was queried is sent in full before the loop goes on, and
\* once the loop has read the interrupt as set it issues no further page query.
C6_NoQueryAfterInterrupt ==
    /\ (EncFullScan /\ pc \in {"query", "tail", "close", "returned"}) =>
            /\ nSent = Len(queries)
            /\ nSent > 0 => lastBatch = page.assets
    /\ ~queryAfterObs

(***************************************************************************)
(* The ENC reconciliation queries (SpecQuery).  The claims are about the   *)
(* calls that return, for requests that list every identifier once.        *)
(***************************************************************************)
Requested == Split(qReq)

QueryReturned(fn) ==
    /\ qFn = fn /\ qOut.outcome = "return"
    /\ NoDup(Requested)

\* the positions of the returned assets that satisfy P
Positions(P(_)) == {i \in 1..Len(qOut.assets) : P(qOut.assets[i])}

IsPlaceholder(a) == a.Extra.nil
IsFound(a) == ~a.Extra.nil /\ Len(a.IPAddresses) > 0

\* the records of the answer that yield no valid address
ZeroAddressRecords ==
    {i \in 1..Len(qResp.data) : Len(SetBMCInterfaces(qResp.data[i].attributes)) = 0}

\* the identifiers a record with a valid address matches
Matched ==
    IF qFn = "serial"
    THEN {qResp.data[i].key : i \in (1..Len(qResp.data)) \ ZeroAddressRecords}
    ELSE UNION {SeqToSet(SetBMCInterfaces(qResp.data[i].attributes)) :
                    i \in 1..Len(qResp.data)}

\* C2: a by-serial query returns exactly one asset per requested serial, found
\* with attributes or a placeholder with an empty address list, and no other.
C2_OneAssetPerSerial ==
    QueryReturned("serial") =>
        /\ Len(qOut.assets) = Len(Requested)
        /\ \A k \in 1..Len(Requested) :
              LET HasSerial(a) == a.Serial = Requested[k]
              IN  Cardinality(Positions(HasSerial)) = 1
        /\ \A i \in 1..Len(qOut.assets) :
              \/ IsFound(qOut.assets[i])
              \/ IsPlaceholder(qOut.assets[i]) /\ qOut.assets[i].IPAddresses = <<>>

\* C3: a by-IP query returns, for every requested IP, exactly one asset that
\* carries it.
C3_OneAssetPerIP ==
    QueryReturned("ip") =>
        \A k \in 1..Len(Requested) :
            LET HasIP(a) == Requested[k] \in SeqToSet(a.IPAddresses)
            IN  Cardinality(Positions(HasIP)) = 1

\* C4: a record without a valid address yields no found asset, and the
\* placeholders of the answer are the identifiers no record matched, each once.
C4_ZeroAddressRecordLeavesPlaceholder ==
    (/\ QueryReturned(qFn)
     /\ ~qResp.err /\ ~qResp.malformed
     /\ ZeroAddressRecords # {}) =>
        /\ \A i \in ZeroAddressRecords :
              LET FoundFor(a) == IsFound(a) /\ a.Serial = qResp.data[i].key
              IN  Positions(FoundFor) = {}
        /\ \A k \in 1..Len(Requested) :
              LET PlaceholderFor(a) ==
                      /\ IsPlaceholder(a)
                      /\ IF qFn = "serial" THEN a.Serial = Requested[k]
                                           ELSE a.IPAddresses = <<Requested[k]>>
              IN  Cardinality(Positions(PlaceholderFor)) =
                      IF Requested[k] \in Matched THEN 0 ELSE 1
        /\ Cardinality(Positions(IsPlaceholder)) =
               Cardinality(SeqToSet(Requested) \ Matched)

\* the by-serial half of C4, which the code keeps
C4_BySerialOnly ==
    qFn = "serial" => C4_ZeroAddressRecordLeavesPlaceholder

(***************************************************************************)
(* The butler's message handler (SpecButler).  msg is the message of the   *)
(* last invocation and last is what that invocation did.                   *)
(***************************************************************************)
Invoked == last.outcome \in {"execute", "configure"}

\* an address that is neither empty nor 0.0.0.0
Usable(asset) ==
    \E i \in 1..Len(asset.IPAddresses) : asset.IPAddresses[i] \notin {"", "0.0.0.0"}

\* the counters other than asset_recvd and name are as before the invocation
OnlyCounted(name) ==
    /\ counters[name] = last.before[name] + 1
    /\ counters["asset_recvd"] = last.before["asset_recvd"] + 1
    /\ \A n \in CounterNames \ {name, "asset_recvd"} : counters[n] = last.before[n]

\* C7: Configure or Execute is invoked only for an asset that has an address
\* which is neither empty nor 0.0.0.0.
C7_ActedOnlyWithUsableAddress ==
    (nMsgs > 0 /\ Invoked) => Usable(msg.Asset)

\* C8: a dispatcher that is not cancelled drops an asset whose address list is
\* empty or is exactly <<"0.0.0.0">>: nothing is invoked, no login is attempted
\* and the no-IP counter goes up by one.
C8_NoIPAssetDropped ==
    (/\ nMsgs > 0 /\ ~last.intr
     /\ msg.Asset.IPAddresses \in {<<>>, <<"0.0.0.0">>}) =>
        /\ last.outcome = "noip"
        /\ last.logins = 0 /\ last.calls = <<>>
        /\ OnlyCounted("asset_recvd_noip")

\* an execute request for an asset at 0.0.0.0 in an unmanaged location was dropped
C8_Witness ==
    /\ nMsgs > 0 /\ ~last.intr
    /\ msg.Asset.IPAddresses = <<"0.0.0.0">>
    /\ msg.Asset.Execute /\ msg.Asset.Location = "lhr1"
    /\ last.outcome = "noip" /\ counters["asset_recvd_noip"] = 1

\* C9: the interrupt flag stays set, and an invocation that finds it set
\* changes no counter, invokes nothing and attempts no login.
C9_InterruptedHandlerDoesNothing ==
    [][bInterrupt =>
          /\ bInterrupt'
          /\ nMsgs' # nMsgs =>
                /\ counters' = counters
                /\ last'.outcome = "cancelled"
                /\ last'.logins = 0 /\ last'.calls = <<>>]_vars

\* two invocations after the interrupt, the second for an asset that would be
\* executed otherwise
C9_Witness ==
    /\ bInterrupt /\ nMsgs = 2 /\ last.intr
    /\ counters = ZeroCounters
    /\ Usable(msg.Asset) /\ msg.Asset.Execute /\ msg.Asset.Location = ""

LocationFilterApplies ==
    /\ msg.Asset.Location # ""
    /\ \A i \in 1..Len(bConfig.Locations) : bConfig.Locations[i] # msg.Asset.Location
    /\ ~bConfig.IgnoreLocation

DroppedByLocation ==
    /\ last.outcome = "location"
    /\ last.logins = 0 /\ last.calls = <<>>
    /\ OnlyCounted("asset_recvd_location_unmanaged")

\* C10 as stated: an asset with a usable address is dropped by the location
\* filter exactly if its location is set, is not managed and the override is off.
C10_LocationFilter_Original ==
    (nMsgs > 0 /\ Usable(msg.Asset)) =>
        /\ DroppedByLocation <=> LocationFilterApplies
        /\ msg.Asset.Location = "" => last.outcome # "location"

\* C10, amended: the same for a dispatcher that has not read the interrupt as set.
C10_LocationFilter ==
    (nMsgs > 0 /\ ~last.intr /\ Usable(msg.Asset)) =>
        /\ DroppedByLocation <=> LocationFilterApplies
        /\ msg.Asset.Location = "" => last.outcome # "location"

\* a configure request for an asset in an unmanaged location was dropped
C10_Witness ==
    /\ nMsgs > 0 /\ ~last.intr /\ Usable(msg.Asset)
    /\ msg.Asset.Location = "lhr1" /\ msg.Asset.Configure
    /\ ~bConfig.IgnoreLocation
    /\ DroppedByLocation

(***************************************************************************)
(* The routing of msgHandler and the two paths (SpecButler).               *)
(***************************************************************************)
\* the last invocation was past the cancellation, address and location filters
PassedFilters ==
    /\ nMsgs > 0 /\ ~last.intr
    /\ msg.Asset.IPAddresses \notin {<<>>, <<"0.0.0.0">>}
    /\ ~LocationFilterApplies

\* C11 as stated: past the filters, an asset whose configure flag is set goes to
\* configureAsset, and executeCommand is invoked only when configure is not set
\* and execute is set.
C11_ConfigureBeforeExecute_Original ==
    PassedFilters =>
        /\ msg.Asset.Configure => last.invoked = <<"configureAsset">>
        /\ "executeCommand" \in SeqToSet(last.invoked) =>
                ~msg.Asset.Configure /\ msg.Asset.Execute

\* C11, amended: past the filters, an asset whose execute flag is set goes to
\* executeCommand, and configureAsset is invoked only when execute is not set
\* and configure is set.
C11_ExecuteBeforeConfigure ==
    PassedFilters =>
        /\ msg.Asset.Execute => last.invoked = <<"executeCommand">>
        /\ "configureAsset" \in SeqToSet(last.invoked) =>
                ~msg.Asset.Execute /\ msg.Asset.Configure

\* an asset with both flags set was executed
C11_Witness ==
    /\ PassedFilters
    /\ msg.Asset.Configure /\ msg.Asset.Execute
    /\ last.invoked = <<"executeCommand">>

OutcomeCounters ==
    {"execute_fail", "execute_success", "configure_fail", "configure_success"}

RECURSIVE SumOver(_, _)
SumOver(f, S) ==
    IF S = {} THEN 0
    ELSE LET n == CHOOSE n \in S : TRUE
         IN  f[n] + SumOver(f, S \ {n})

\* how much every counter went up in the last invocation
Delta == [n \in CounterNames |-> counters[n] - last.before[n]]

\* C12: an invocation of msgHandler never invokes both executeCommand and
\* configureAsset; past the filters with a flag set exactly one of them is
\* invoked, once, and one outcome counter goes up by one; with no flag set
\* nothing is invoked, no login is attempted and no outcome counter changes.
C12_ExactlyOnePath ==
    nMsgs > 0 =>
        /\ Len(last.invoked) <= 1
        /\ (PassedFilters /\ (msg.Asset.Configure \/ msg.Asset.Execute)) =>
                /\ Len(last.invoked) = 1
                /\ SumOver(Delta, OutcomeCounters) = 1
        /\ (PassedFilters /\ ~msg.Asset.Configure /\ ~msg.Asset.Execute) =>
                /\ last.invoked = <<>>
                /\ last.logins = 0 /\ last.calls = <<>>
                /\ \A n \in OutcomeCounters : Delta[n] = 0

\* an asset with both flags set went down one path, with one login
C12_Witness ==
    /\ PassedFilters
    /\ msg.Asset.Configure /\ msg.Asset.Execute
    /\ Len(last.invoked) = 1 /\ last.logins = 1
    /\ SumOver(Delta, OutcomeCounters) = 1

KnownCommands == {"bmc-reset", "powercycle", "firmware-update", "firmware-version"}

\* C13: an execute request with an unknown command name for a Bmc device (dry
\* run off, login succeeded) counts as an execute failure and not as a success.
C13_UnknownCommandFails ==
    (/\ PassedFilters /\ last.outcome = "execute"
     /\ ~bConfig.DryRun /\ lastEnv.login = "Bmc"
     /\ msg.AssetExecute \notin KnownCommands) =>
        /\ last.err
        /\ Delta["execute_fail"] = 1
        /\ Delta["execute_success"] = 0

\* every answer the collaborators can give
AnyEnvs ==
    {Env(l, a, e[1], e[2], ce, r) :
        l \in {"fail", "Bmc", "Cmc", "Other"}, a \in {"10.0.0.1"},
        e \in {<<TRUE, FALSE>>, <<FALSE, FALSE>>, <<FALSE, TRUE>>},
        ce \in BOOLEAN, r \in {"nil", "plain", "setup"}} \cup {NoEnv}

DryRunResult(r, asset) ==
    /\ ~r.err
    /\ r.logins = 0 /\ r.closes = 0 /\ r.calls = <<>>
    /\ r.asset = asset

\* C14: with dry run on, executeCommand and configureAsset return no error,
\* attempt no login, make no device call and leave the asset as it was: in the
\* invocation msgHandler made, and when called for the asset and the payloads
\* of any message handed over (also one that msgHandler dropped), whatever
\* the device would answer.
C14_DryRunTouchesNothing ==
    bConfig.DryRun =>
        /\ (nMsgs > 0 /\ Invoked) =>
                /\ DryRunResult(last, msg.Asset)
                /\ Delta["execute_fail"] = 0 /\ Delta["configure_fail"] = 0
        /\ \A e \in AnyEnvs :
                /\ DryRunResult(executeCommand(bConfig, msg.AssetExecute, msg.Asset, e),
                                msg.Asset)
                /\ DryRunResult(configureAsset(bConfig, msg.AssetConfig, msg.Asset, e),
                                msg.Asset)

\* a configure request handled in a dry run
C14_Witness ==
    /\ bConfig.DryRun /\ nMsgs > 0
    /\ last.invoked = <<"configureAsset">>
    /\ last.logins = 0 /\ Delta["configure_success"] = 1

LoggedIn == lastEnv.login \in {"Bmc", "Cmc"}

\* C15: when the login of configureAsset yields a Bmc or Cmc handle, the handle
\* is closed exactly once before configureAsset returns, on every path.
C15_ConfigureClosesSession ==
    (nMsgs > 0 /\ last.invoked = <<"configureAsset">> /\ last.logins = 1 /\ LoggedIn) =>
        last.closes = 1

\* C16: when the login of executeCommand yields a Bmc or Cmc handle, the handle
\* is closed exactly once before executeCommand returns, whatever the command
\* and whatever the capability call answers.
C16_ExecuteClosesSession ==
    (nMsgs > 0 /\ last.invoked = <<"executeCommand">> /\ last.logins = 1 /\ LoggedIn) =>
        last.closes = 1

\* an unknown command on a Bmc: no capability call, the handle closed once
C16_Witness ==
    /\ nMsgs > 0 /\ last.invoked = <<"executeCommand">>
    /\ lastEnv.login = "Bmc" /\ msg.AssetExecute = "bogus"
    /\ last.calls = <<>> /\ last.closes = 1

\* C19: an invocation of msgHandler that does not find the interrupt set
\* returns with one of the five outcomes and leaves the interrupt unset, and
\* its outcome, its error and the counters it increments are those the same
\* asset gets when it is the first one handled.
C19_PerAssetIsolation ==
    [][(nMsgs' # nMsgs /\ ~bInterrupt) =>
          LET \* the same asset and answers when nothing was handled before
              alone == msgHandlerResult(bConfig', FALSE, msg', lastEnv', ZeroCounters)
          IN  /\ ~bInterrupt'
              /\ last'.outcome \in {"noip", "location", "execute", "configure", "unknown"}
              /\ last'.outcome = alone.last.outcome
              /\ last'.err = alone.last.err
              /\ last'.invoked = alone.last.invoked
              /\ \A n \in CounterNames :
                    counters'[n] - counters[n] = alone.counters[n]]_vars

\* a configure that succeeded right after an asset that failed
C19_Witness ==
    /\ nMsgs = 2 /\ ~last.intr
    /\ last.before["execute_fail"] + last.before["configure_fail"] = 1
    /\ last.invoked = <<"configureAsset">> /\ ~last.err
    /\ counters["configure_success"] = 1

(***************************************************************************)
(* The batches, a failed page query and the end of a full scan             *)
(* (SpecPipeline, SpecPipelineFair).                                       *)
(***************************************************************************)
\* C17: whatever the source and the iterator, a batch sent on the channel holds
\* at most BatchSize assets.
C17_BatchWithinBatchSize ==
    /\ nSent > 0 => Len(lastBatch) <= BatchSize
    /\ \A i \in 1..Len(chanBuf) : Len(chanBuf[i]) <= BatchSize

\* the command of the last page query failed in every run, or answered garbage
PageQueryFailed ==
    /\ EncFullScan /\ Len(queries) > 0
    /\ \/ lastExec.err /\ lastExec.attempts = OffsetRetry
       \/ lastExec.malformed

\* C18: when all OffsetRetry runs of a page query's command fail, or its answer
\* is malformed, the process is gone: the page is not sent (the sends are those
\* of the pages before it), and from then on nothing is sent, queried or closed.
C18_FailedPageQueryEndsRun ==
    /\ [](PageQueryFailed =>
            /\ pc = "exited"
            /\ nSent = Len(queries) - 1
            /\ closeCount = 0)
    /\ [][pc = "exited" =>
            /\ pc' = "exited"
            /\ nSent' = nSent /\ queries' = queries /\ closeCount' = closeCount]_vars

\* the second page of a scan failed three times after the first page was sent
C18_Witness ==
    /\ PageQueryFailed /\ lastExec.err /\ lastExec.attempts = 3
    /\ pc = "exited" /\ Len(queries) = 2 /\ nSent = 1

\* C20: with consumers that keep receiving, a full scan that has started ends:
\* the channel is closed, unless a page query did not return (the process
\* exited in it).
C20_FullScanCloses ==
    (EncFullScan /\ pc = "run") ~> (closeCount = 1 \/ pc = "exited")

\* a scan of two asset types, cancelled on its way, that closed the channel
C20_Witness ==
    /\ EncFullScan /\ pc = "returned" /\ closeCount = 1
    /\ stop /\ interrupt /\ Len(FilterAssetType) = 2 /\ Len(queries) >= 2

(***************************************************************************)
(* AssetRetrieve and the CSV lookups (SpecPipeline).                       *)
(***************************************************************************)
Retrieved == pc \notin {"idle", "start"}

\* C21: the iterator AssetRetrieve returns for the CSV and the ENC source is
\* the by-serial one exactly when the serial filter is set, the by-IP one
\* exactly when the serial filter is empty and the IP filter is set, and the
\* full scan otherwise; the IP list source returns its one iterator.
C21_StrategyFollowsFilters ==
    Retrieved =>
        IF source = "iplist" THEN strategy = <<"iplist", "AssetIter">>
        ELSE /\ strategy[1] = source
             /\ strategy[2] \in {"AssetIterBySerial", "AssetIterByIP", "AssetIter"}
             /\ strategy[2] = "AssetIterBySerial" <=> FilterParams.Serials # <<>>
             /\ strategy[2] = "AssetIterByIP" <=>
                    (FilterParams.Serials = <<>> /\ FilterParams.Ips # <<>>)
             /\ strategy[2] = "AssetIter" <=>
                    (FilterParams.Serials = <<>> /\ FilterParams.Ips = <<>>)

\* both filters are set and the ENC source returned the by-serial iterator
C21_Witness ==
    /\ Retrieved /\ source = "enc"
    /\ FilterParams.Serials # <<>> /\ FilterParams.Ips # <<>>
    /\ strategy = <<"enc", "AssetIterBySerial">>

\* the rows of the file that the lookups read: those with a bmcaddress
RowsFor(field, value) ==
    {i \in 1..Len(csvFile.rows) :
        /\ csvFile.rows[i].BmcAddress # ""
        /\ csvFile.rows[i][field] = value}

CsvSent(iter) == strategy = <<"csv", iter>> /\ nSent > 0

\* C22: the CSV by-IP iterator sends one batch that holds, in the order of the
\* request, one asset per requested IP; the asset has that IP as its only
\* address and the serial, vendor and type of a row with that bmcaddress (of
\* the row, when there is one such row), or no attributes when no row has it.
C22_CsvByIPOnePerIP ==
    CsvSent("AssetIterByIP") =>
        LET req == Split(FilterParams.Ips)
        IN  /\ nSent = 1
            /\ Len(lastBatch) = Len(req)
            /\ \A k \in 1..Len(req) :
                  LET a == lastBatch[k]
                      rows == RowsFor("BmcAddress", req[k])
                  IN  /\ a.IPAddresses = <<req[k]>>
                      /\ IF rows = {}
                         THEN a.Serial = "" /\ a.Vendor = "" /\ a.Type = ""
                         ELSE \E i \in rows :
                                /\ a.Serial = csvFile.rows[i].Serial
                                /\ a.Vendor = csvFile.rows[i].Vendor
                                /\ a.Type = csvFile.rows[i].Type

\* two IPs were requested: the first has a row, the second has none
C22_Witness ==
    /\ CsvSent("AssetIterByIP") /\ pc = "returned"
    /\ Len(lastBatch) = 2
    /\ RowsFor("BmcAddress", lastBatch[1].IPAddresses[1]) # {}
    /\ lastBatch[1].Serial # ""
    /\ RowsFor("BmcAddress", lastBatch[2].IPAddresses[1]) = {}
    /\ lastBatch[2].Serial = ""

\* C23: the CSV by-serial iterator sends as many assets as serials were
\* requested, one per requested serial: the asset of the matching row, or a
\* placeholder when no row with a bmcaddress has the serial.
C23_CsvBySerialOnePerSerial ==
    CsvSent("AssetIterBySerial") =>
        LET req == Split(FilterParams.Serials)
        IN  /\ Len(lastBatch) = Len(req)
            /\ \A k \in 1..Len(req) :
                  /\ Cardinality({i \in 1..Len(lastBatch) :
                                    lastBatch[i].Serial = req[k]}) = 1
                  /\ RowsFor("Serial", req[k]) # {} =>
                        \E i \in 1..Len(lastBatch), j \in RowsFor("Serial", req[k]) :
                            /\ lastBatch[i].Serial = req[k]
                            /\ lastBatch[i].IPAddresses = <<csvFile.rows[j].BmcAddress>>

(***************************************************************************)
(* The Cmc in executeCommand and the counters (SpecButler).                *)
(***************************************************************************)
\* C24: for a Cmc handle executeCommand makes no device call but the Close,
\* whatever the command name, and returns no error: an execute success is
\* counted.
C24_CmcOnlyClosed ==
    (nMsgs > 0 /\ last.invoked = <<"executeCommand">> /\ lastEnv.login = "Cmc") =>
        /\ last.calls = <<>>
        /\ last.closes = 1
        /\ ~last.err
        /\ Delta["execute_success"] = 1 /\ Delta["execute_fail"] = 0

\* a powercycle asked of a chassis: nothing was called
C24_Witness ==
    /\ nMsgs > 0 /\ last.invoked = <<"executeCommand">> /\ lastEnv.login = "Cmc"
    /\ Usable(msg.Asset) /\ msg.AssetExecute = "powercycle"
    /\ last.calls = <<>> /\ last.closes = 1

DropAndOutcomeCounters ==
    {"asset_recvd_noip", "asset_recvd_location_unmanaged"} \cup OutcomeCounters

\* C27: asset_recvd equals the sum of the no-IP, unmanaged-location and four
\* outcome counters plus the number of unknown-action no-ops, and an
\* invocation that is not cancelled counts asset_recvd once and ends in
\* exactly one of these.
C27_ReceivedIsSumOfOutcomes ==
    /\ counters["asset_recvd"] = SumOver(counters, DropAndOutcomeCounters) + nUnknown
    /\ (nMsgs > 0 /\ ~last.intr) =>
            /\ Delta["asset_recvd"] = 1
            /\ \A n \in DropAndOutcomeCounters : Delta[n] \in {0, 1}
            /\ SumOver(Delta, DropAndOutcomeCounters)
                    + (IF last.outcome = "unknown" THEN 1 ELSE 0) = 1

\* two assets handled: a failed configure and an unknown action
C27_Witness ==
    /\ nMsgs = 2 /\ counters["asset_recvd"] = 2
    /\ counters["configure_fail"] = 1 /\ nUnknown = 1

(***************************************************************************)
(* ExecCmd (SpecExec).                                                     *)
(***************************************************************************)
\* the first run of the command that succeeds, if any
FirstSuccess ==
    {k \in 1..Len(xErrs) : ~xErrs[k] /\ \A i \in 1..(k - 1) : xErrs[i]}

\* C25: ExecCmd returns for every retry argument; with retry 0 it runs the
\* command once; with retry n > 0 and a command that always fails it runs it
\* n + 1 times (n retries) and returns the error; it stops at the first run
\* that succeeds.
C25_RetriesTheGivenNumber ==
    xOut.called =>
        /\ xOut.attempts >= 1
        /\ xRetry = 0 => (xOut.attempts = 1 /\ xOut.err = xErrs[1])
        /\ (xRetry > 0 /\ \A i \in 1..(xRetry + 1) : xErrs[i]) =>
                (xOut.attempts = xRetry + 1 /\ xOut.err)
        /\ xRetry > 0 =>
                \A k \in FirstSuccess :
                    k <= xRetry + 1 => (xOut.attempts = k /\ ~xOut.err)

\* what the code keeps: one run for a retry argument below 2, and at most
\* retry runs otherwise, ending at the first success
C25_RunsAtMostRetryTimes ==
    xOut.called =>
        /\ xOut.attempts = IF xRetry < 2 THEN 1
                           ELSE IF \E k \in FirstSuccess : k <= xRetry
                                THEN CHOOSE k \in FirstSuccess : TRUE
                                ELSE xRetry
        /\ xOut.err = xErrs[xOut.attempts]

(***************************************************************************)
(* The IP list source and the butler (SpecEndToEnd).                       *)
(***************************************************************************)
\* the address the asset of the last invocation was made from
SynthesizedFrom == Split(FilterParams.Ips)[nMsgs]

\* C26: an asset the IP list source made from a usable address has that
\* address in IPAddresses, and with an action flag set, no location and no
\* cancellation it is executed or configured and not counted as no-IP.
C26_IPListAssetReachesAction ==
    (/\ source = "iplist" /\ nMsgs \in 1..Len(Split(FilterParams.Ips))
     /\ ~last.intr
     /\ SynthesizedFrom \notin {"", "0.0.0.0"}
     /\ (msg.Asset.Configure \/ msg.Asset.Execute)
     /\ msg.Asset.Location = "") =>
        /\ SynthesizedFrom \in SeqToSet(msg.Asset.IPAddresses)
        /\ last.outcome \in {"execute", "configure"}
        /\ Delta["asset_recvd_noip"] = 0

=============================================================================
